---- MODULE Spec2Model ----
(***************************************************************************)
(* Session inference of pyunhrcnominate (enrich.py): calculate_sessions    *)
(* folds the date-ordered resolution stream into Session objects keyed by  *)
(* the '|'-joined, sorted roster of each resolution.                       *)
(*                                                                         *)
(* One step of the model is one iteration of the loop of calculate_sessions*)
(* (enrich.py:32-51), the suspension at breakpoint() (enrich.py:39) and    *)
(* its two outcomes, the end of the stream, and one yield of the second    *)
(* loop (enrich.py:53-54).  The tuples of resolutions() are drawn as they  *)
(* are consumed; `stream` is the history of the tuples consumed so far.    *)
(* Vote dates are day numbers; resolution names are the distinct numbers   *)
(* 1, 2, ... (the resolutions table has PRIMARY KEY (name)).               *)
(***************************************************************************)
EXTENDS Naturals, Sequences, FiniteSets, TLC

VARIABLES stream, session_cache, last_country_key, country_key, session_idx, pc,
          raised, emitted,
          val, vote_pc, vote_result,
          res_date, session_pc, session_result

\* One call of Vote.from_record_value (types.py:14-24): its argument, where the
\* call stands, and what it returned or raised.
vote_vars == <<val, vote_pc, vote_result>>

\* One call of Resolution.session (types.py:60-65): the resolution's date, where
\* the call stands, and what it returned or raised.
period_vars == <<res_date, session_pc, session_result>>

vars == <<stream, session_cache, last_country_key, country_key, session_idx, pc,
          raised, emitted, vote_vars, period_vars>>

\* Longest stream of resolutions explored.
MaxLen == 3

\* Latest vote date (day number) explored.
MaxDate == 2

\* The country codes of the votes table, in ascending string order
\* (scrape.py:48 stores only codes of exactly three characters).
CountryOrder == <<"DEU", "FRA", "USA">>

Countries == {CountryOrder[i] : i \in 1..Len(CountryOrder)}

Range(s) == {s[i] : i \in 1..Len(s)}

\* The rows SELECT country_short ... can return for one resolution: the codes
\* of its votes in any storage order (PRIMARY KEY (resolution_name,
\* country_short) keeps them distinct).
StoredRows == {r \in UNION {[1..n -> Countries] : n \in 0..Len(CountryOrder)} :
                 \A i, j \in 1..Len(r) : i # j => r[i] # r[j]}

\* sorted(set(...)) over the codes: the codes of s in ascending string order.
RECURSIVE SortedFrom(_, _)
SortedFrom(s, i) ==
  IF i > Len(CountryOrder) THEN <<>>
  ELSE IF CountryOrder[i] \in s THEN <<CountryOrder[i]>> \o SortedFrom(s, i + 1)
  ELSE SortedFrom(s, i + 1)

\* Faulty variant: the rows as fetched, neither deduplicated nor sorted.
get_resolution_countries_unsorted(rows) == rows

\* enrich.py:15  list(sorted(set([row[0] for row in c.fetchall()])))
get_resolution_countries(rows) == SortedFrom(Range(rows), 1)

\* str.join: the items separated by sep.
RECURSIVE join(_, _)
join(sep, items) ==
  IF Len(items) = 0 THEN ""
  ELSE IF Len(items) = 1 THEN items[1]
  ELSE items[1] \o sep \o join(sep, Tail(items))

\* Python's None, the last_vote a Session is constructed with (enrich.py:44);
\* vote dates are the day numbers 1..MaxDate.
None == 0

\* last_country_key is None (<<>>) or a key (<<key>>).
NoKey == <<>>

\* The Session that enrich.py:44 constructs:
\* Session(session_idx, set(countries), set(), voted_date, last_vote=None).
Session(index, members, resolutions, first_vote, last_vote) ==
  [index |-> index, members |-> members, resolutions |-> resolutions,
   first_vote |-> first_vote, last_vote |-> last_vote]

NoError == [type |-> "none", resolution |-> 0]

\* The positions of session_cache (a dict, kept in insertion order) holding key k.
CachePos(cache, k) == {i \in 1..Len(cache) : cache[i].key = k}

\* k in session_cache
InCache(cache, k) == CachePos(cache, k) # {}

\* session_cache[k] = session: a cached key keeps its place, a new one goes last.
DictSet(cache, k, session) ==
  IF InCache(cache, k)
  THEN [i \in 1..Len(cache) |->
          IF cache[i].key = k THEN [key |-> k, session |-> session] ELSE cache[i]]
  ELSE Append(cache, [key |-> k, session |-> session])

\* enrich.py:38  last_country_key != country_key and country_key in session_cache
RegressionCheck(cache, last, k) == last # <<k>> /\ InCache(cache, k)

\* Faulty variant: a new Session whenever the key differs from the previous tuple's.
IsNewKeyByLast(cache, last, k) == last # <<k>>

\* enrich.py:41  country_key not in session_cache
IsNewKey(cache, last, k) == ~InCache(cache, k)

\* enrich.py:44-46: the new Session is stored under its key.
Register(cache, k, idx, roster, voted_date) ==
  DictSet(cache, k, Session(idx, roster, {}, voted_date, None))

\* Faulty variant: the resolutions set replaced instead of added to.
AttributeOverwrite(cache, k, resolution, voted_date) ==
  [i \in 1..Len(cache) |->
     IF cache[i].key = k
     THEN [cache[i] EXCEPT !.session.last_vote = voted_date,
                           !.session.resolutions = {resolution}]
     ELSE cache[i]]

\* Faulty variant: enrich.py:49 left out, last_vote is never assigned.
AttributeNoLastVote(cache, k, resolution, voted_date) ==
  [i \in 1..Len(cache) |->
     IF cache[i].key = k
     THEN [cache[i] EXCEPT !.session.resolutions = @ \cup {resolution}]
     ELSE cache[i]]

\* Faulty variant: last_vote assigned on every cached Session, not only on k's.
AttributeTouchingAll(cache, k, resolution, voted_date) ==
  [i \in 1..Len(cache) |->
     IF cache[i].key = k
     THEN [cache[i] EXCEPT !.session.last_vote = voted_date,
                           !.session.resolutions = @ \cup {resolution}]
     ELSE [cache[i] EXCEPT !.session.last_vote = voted_date]]

\* enrich.py:49-50 on the Session cached under key k.
Attribute(cache, k, resolution, voted_date) ==
  [i \in 1..Len(cache) |->
     IF cache[i].key = k
     THEN [cache[i] EXCEPT !.session.last_vote = voted_date,
                           !.session.resolutions = @ \cup {resolution}]
     ELSE cache[i]]

\* No call of Vote.from_record_value is under way.
NoVoteCall ==
  /\ val = <<>>
  /\ vote_pc = "idle"
  /\ vote_result = "none"

\* No call of Resolution.session is under way.
NoSessionCall ==
  /\ res_date = <<>>
  /\ session_pc = "idle"
  /\ session_result = "none"

\* enrich.py:27-30: calculate_sessions starts with index 1, an empty cache and no
\* previous key.
SessionsStart ==
  /\ stream = <<>>
  /\ session_cache = <<>>
  /\ last_country_key = NoKey
  /\ country_key = NoKey
  /\ session_idx = 1
  /\ pc = "loop"
  /\ raised = NoError
  /\ emitted = <<>>

Init ==
  /\ SessionsStart
  /\ NoVoteCall
  /\ NoSessionCall

\* Faulty variant: the query without ORDER BY vote_date ASC.
NextTuplesUnordered ==
  {[resolution |-> Len(stream) + 1, voted_date |-> d,
    countries |-> get_resolution_countries(rows)] :
     d \in 1..MaxDate, rows \in StoredRows}

\* The next tuple of resolutions() (enrich.py:17-24): the next resolution in
\* vote_date ASC order with the countries of its votes.
NextTuples ==
  {[resolution |-> Len(stream) + 1, voted_date |-> d,
    countries |-> get_resolution_countries(rows)] :
     d \in {x \in 1..MaxDate : Len(stream) = 0 \/ x >= stream[Len(stream)].voted_date},
     rows \in StoredRows}

\* The history of the tuples consumed, each with its roster as a set.
Consumed(t) ==
  Append(stream, [resolution |-> t.resolution, voted_date |-> t.voted_date,
                  roster |-> Range(t.countries)])

\* enrich.py:41-51 for the tuple consumed last (st[Len(st)]) under key k.
LoopBody(st, k) ==
  LET t == st[Len(st)]
      fresh == IsNewKey(session_cache, last_country_key, k)
      cache == IF fresh
               THEN Register(session_cache, k, session_idx, t.roster, t.voted_date)
               ELSE session_cache
  IN /\ session_cache' = Attribute(cache, k, t.resolution, t.voted_date)
     /\ session_idx' = IF fresh THEN session_idx + 1 ELSE session_idx
     /\ last_country_key' = <<k>>

\* enrich.py:32-51, the key is not cached: a new Session is registered.
NewSession ==
  /\ pc = "loop"
  /\ Len(stream) < MaxLen
  /\ \E t \in NextTuples :
       LET k == join("|", t.countries) IN
       /\ ~RegressionCheck(session_cache, last_country_key, k)
       /\ IsNewKey(session_cache, last_country_key, k)
       /\ stream' = Consumed(t)
       /\ country_key' = <<k>>
       /\ LoopBody(Consumed(t), k)
  /\ UNCHANGED <<pc, raised, emitted>>
  /\ UNCHANGED <<vote_vars, period_vars>>

\* enrich.py:32-51, the key is the previous tuple's: its Session continues.
Continuation ==
  /\ pc = "loop"
  /\ Len(stream) < MaxLen
  /\ \E t \in NextTuples :
       LET k == join("|", t.countries) IN
       /\ ~RegressionCheck(session_cache, last_country_key, k)
       /\ ~IsNewKey(session_cache, last_country_key, k)
       /\ stream' = Consumed(t)
       /\ country_key' = <<k>>
       /\ LoopBody(Consumed(t), k)
  /\ UNCHANGED <<pc, raised, emitted>>
  /\ UNCHANGED <<vote_vars, period_vars>>

\* enrich.py:32-39: a cached key returns after another one; breakpoint() suspends
\* the loop in the debugger before anything is changed.
Regression ==
  /\ pc = "loop"
  /\ Len(stream) < MaxLen
  /\ \E t \in NextTuples :
       LET k == join("|", t.countries) IN
       /\ RegressionCheck(session_cache, last_country_key, k)
       /\ stream' = Consumed(t)
       /\ country_key' = <<k>>
  /\ pc' = "breakpoint"
  /\ UNCHANGED <<session_cache, last_country_key, session_idx, raised, emitted>>
  /\ UNCHANGED <<vote_vars, period_vars>>

\* breakpoint() returns (the debugger's `continue`, or PYTHONBREAKPOINT=0):
\* enrich.py:41-51 run for the suspended tuple.
DebuggerContinue ==
  /\ pc = "breakpoint"
  /\ LoopBody(stream, country_key[1])
  /\ pc' = "loop"
  /\ UNCHANGED <<stream, country_key, raised, emitted>>
  /\ UNCHANGED <<vote_vars, period_vars>>

\* The debugger's `quit` (or its input ending): bdb.BdbQuit leaves calculate_sessions.
DebuggerQuit ==
  /\ pc = "breakpoint"
  /\ pc' = "raised"
  /\ raised' = [type |-> "BdbQuit", resolution |-> 0]
  /\ UNCHANGED <<stream, session_cache, last_country_key, country_key, session_idx,
                 emitted>>
  /\ UNCHANGED <<vote_vars, period_vars>>

\* Faulty variant: an empty stream treated as an error.
ExhaustedRejectingEmpty ==
  /\ pc = "loop"
  /\ pc' = IF stream = <<>> THEN "raised" ELSE "emit"
  /\ raised' = IF stream = <<>> THEN [type |-> "ValueError", resolution |-> 0]
               ELSE raised
  /\ UNCHANGED <<stream, session_cache, last_country_key, country_key, session_idx,
                 emitted>>
  /\ UNCHANGED <<vote_vars, period_vars>>

\* enrich.py:32: resolutions() is exhausted, the first loop ends.
Exhausted ==
  /\ pc = "loop"
  /\ pc' = "emit"
  /\ UNCHANGED <<stream, session_cache, last_country_key, country_key, session_idx,
                 raised, emitted>>
  /\ UNCHANGED <<vote_vars, period_vars>>

\* dict.values(): the values in insertion order.
Values(cache) == [i \in 1..Len(cache) |-> cache[i].session]

\* Faulty variant: the Sessions yielded newest first.
YieldOrderReversed(cache) ==
  [i \in 1..Len(cache) |-> cache[Len(cache) + 1 - i].session]

\* enrich.py:53: the order in which the second loop visits the Sessions.
YieldOrder(cache) == Values(cache)

\* enrich.py:53-54: the next Session is yielded.
YieldSession ==
  /\ pc = "emit"
  /\ Len(emitted) < Len(session_cache)
  /\ emitted' = Append(emitted, YieldOrder(session_cache)[Len(emitted) + 1])
  /\ UNCHANGED <<stream, session_cache, last_country_key, country_key, session_idx,
                 pc, raised>>
  /\ UNCHANGED <<vote_vars, period_vars>>

\* enrich.py:53-54: the second loop ends and the generator returns.
Return ==
  /\ pc = "emit"
  /\ Len(emitted) = Len(session_cache)
  /\ pc' = "done"
  /\ UNCHANGED <<stream, session_cache, last_country_key, country_key, session_idx,
                 raised, emitted>>
  /\ UNCHANGED <<vote_vars, period_vars>>

Next ==
  \/ NewSession
  \/ Continuation
  \/ Regression
  \/ DebuggerContinue
  \/ DebuggerQuit
  \/ Exhausted
  \/ YieldSession
  \/ Return

Spec == Init /\ [][Next]_vars

(***************************************************************************)
(* Vocabulary of the properties, over the history of consumed tuples.      *)
(***************************************************************************)

\* The tuples the loop body has finished with: all consumed ones, except the one
\* the loop is suspended on at the breakpoint.
Processed == IF pc = "breakpoint" THEN Len(stream) - 1 ELSE Len(stream)

\* Tuple j's roster differs from tuple j-1's and equals an earlier tuple's, whose
\* Session is registered.
RegressionAt(j) ==
  /\ j >= 2
  /\ stream[j].roster # stream[j - 1].roster
  /\ \E k \in 1..(j - 1) : stream[k].roster = stream[j].roster
  /\ \E i \in 1..Len(session_cache) : session_cache[i].session.members = stream[j].roster

Sessions == Range(Values(session_cache))

\* The stream positions whose resolution a Session holds.
Assigned(s) == {j \in 1..Len(stream) : stream[j].resolution \in s.resolutions}

\* The distinct rosters of the first n tuples, in order of first appearance.
RECURSIVE FirstAppearances(_)
FirstAppearances(n) ==
  IF n = 0 THEN <<>>
  ELSE LET before == FirstAppearances(n - 1) IN
       IF stream[n].roster \in Range(before) THEN before
       ELSE Append(before, stream[n].roster)

OneToOne ==
  /\ \A i, j \in 1..Len(session_cache) :
       session_cache[i].session.members = session_cache[j].session.members => i = j
  /\ \A j \in 1..Len(stream) :
       Cardinality({i \in 1..Len(session_cache) :
                      session_cache[i].session.members = stream[j].roster}) = 1
  /\ \A s \in Sessions : \E j \in 1..Len(stream) : stream[j].roster = s.members

\* C4 (step part): a roster keeps the Session index it has.
KeepsIndex ==
  \A s \in Sessions :
    \E i \in 1..Len(session_cache') :
      /\ session_cache'[i].session.members = s.members
      /\ session_cache'[i].session.index = s.index

C9_EmptyStream ==
  stream = <<>> =>
    /\ pc \in {"loop", "emit", "done"}
    /\ raised = NoError
    /\ emitted = <<>>
    /\ session_cache = <<>>
    /\ pc = "emit" => ENABLED Return

C9_Witness == stream = <<>> /\ pc = "done"

\* C10 (step): a tuple whose roster has no Session yet is consumed.
ConsumesNewRoster ==
  /\ Len(stream') = Len(stream) + 1
  /\ \A s \in Sessions : s.members # stream'[Len(stream')].roster

SessionsOnlyGrow ==
  \A i \in 1..Len(session_cache) :
    /\ i <= Len(session_cache')
    /\ session_cache'[i].key = session_cache[i].key
    /\ session_cache'[i].session.index = session_cache[i].session.index
    /\ session_cache'[i].session.members = session_cache[i].session.members
    /\ session_cache'[i].session.first_vote = session_cache[i].session.first_vote
    /\ session_cache'[i].session.last_vote >= session_cache[i].session.last_vote
    /\ session_cache[i].session.resolutions \subseteq session_cache'[i].session.resolutions

\* C11 (step): a Session that is new or changed is the one of the roster of the
\* tuple being processed, and there is at most one.
OnlyTheTuplesSession ==
  LET touched == {i \in 1..Len(session_cache') :
                    i > Len(session_cache) \/ session_cache'[i] # session_cache[i]}
  IN /\ Cardinality(touched) <= 1
     /\ \A i \in touched :
          session_cache'[i].session.members = stream'[Len(stream')].roster

LowerCase == <<"a", "b", "e", "i", "n", "o", "s", "t", "v", "y", "x">>

UpperCase == <<"A", "B", "E", "I", "N", "O", "S", "T", "V", "Y", "X">>

Chars == Range(LowerCase) \cup Range(UpperCase) \cup {"_", ".", " ", "0"}

\* str.upper on one character.
char_upper(c) ==
  IF \E i \in 1..Len(LowerCase) : LowerCase[i] = c
  THEN UpperCase[CHOOSE i \in 1..Len(LowerCase) : LowerCase[i] = c]
  ELSE c

\* types.py:15  val.upper()
str_upper(s) == [i \in 1..Len(s) |-> char_upper(s[i])]

\* types.py:16-23: the case patterns in order, each with the Vote it returns.
VoteCases ==
  << [pattern |-> <<"N", "O">>, vote |-> "Vote.NO"],
     [pattern |-> <<"N">>, vote |-> "Vote.NO"],
     [pattern |-> <<"Y", "E", "S">>, vote |-> "Vote.YES"],
     [pattern |-> <<"Y">>, vote |-> "Vote.YES"],
     [pattern |-> <<"A", "B", "S", "T", "A", "I", "N">>, vote |-> "Vote.ABSTAIN"],
     [pattern |-> <<"A">>, vote |-> "Vote.ABSTAIN"],
     [pattern |-> <<"N", "O", "_", "V", "O", "T", "E">>, vote |-> "Vote.NO_VOTE"],
     [pattern |-> <<".">>, vote |-> "Vote.NO_VOTE"] >>

\* types.py:6-11: the members of the enum.
VoteMembers ==
  {"Vote.NO", "Vote.YES", "Vote.ABSTAIN", "Vote.NO_VOTE", "Vote.NOT_IN_SESSION"}

\* The case patterns that equal the subject u.
MatchingCases(u) == {i \in 1..Len(VoteCases) : VoteCases[i].pattern = u}

\* Every spelling of word in lower and upper case.
RECURSIVE CaseVariants(_)
CaseVariants(word) ==
  IF Len(word) = 0 THEN {<<>>}
  ELSE {<<c>> \o rest : c \in {x \in Chars : char_upper(x) = word[1]},
                        rest \in CaseVariants(Tail(word))}

\* The vote column values explored: every spelling of every recognised code, and
\* values that are none of them.
VoteInputs ==
  UNION {CaseVariants(VoteCases[i].pattern) : i \in 1..Len(VoteCases)}
  \cup { <<>>, <<"X">>, <<"x">>, <<"0">>, <<"Y", "E">>, <<"N", "O", " ">>,
         <<"N", ".">>, <<"n", "o", "t", "_", "i", "n", "_", "s", "e", "s", "s", "i", "o", "n">>,
         <<"N", "O", "_", "V", "O", "T", "E", "S">> }

InitVote ==
  /\ SessionsStart
  /\ NoSessionCall
  /\ val \in VoteInputs
  /\ vote_pc = "called"
  /\ vote_result = "none"

\* types.py:15-23: a case matches and its Vote is returned.
VoteMatched ==
  /\ vote_pc = "called"
  /\ MatchingCases(str_upper(val)) # {}
  /\ vote_result' =
       VoteCases[CHOOSE i \in MatchingCases(str_upper(val)) :
                   \A j \in MatchingCases(str_upper(val)) : i <= j].vote
  /\ vote_pc' = "returned"
  /\ UNCHANGED <<val, stream, session_cache, last_country_key, country_key,
                 session_idx, pc, raised, emitted, period_vars>>

\* types.py:24  case _: breakpoint()  suspends the call in the debugger.
VoteUnmatched ==
  /\ vote_pc = "called"
  /\ MatchingCases(str_upper(val)) = {}
  /\ vote_pc' = "breakpoint"
  /\ UNCHANGED <<val, vote_result, stream, session_cache, last_country_key,
                 country_key, session_idx, pc, raised, emitted, period_vars>>

\* breakpoint() returns (the debugger's `continue`, or PYTHONBREAKPOINT=0): the
\* function body ends without a return statement, the call returns None.
VoteDebuggerContinue ==
  /\ vote_pc = "breakpoint"
  /\ vote_result' = "None"
  /\ vote_pc' = "returned"
  /\ UNCHANGED <<val, stream, session_cache, last_country_key, country_key,
                 session_idx, pc, raised, emitted, period_vars>>

\* The debugger's `quit` (or its input ending): bdb.BdbQuit leaves the call.
VoteDebuggerQuit ==
  /\ vote_pc = "breakpoint"
  /\ vote_result' = "bdb.BdbQuit"
  /\ vote_pc' = "raised"
  /\ UNCHANGED <<val, stream, session_cache, last_country_key, country_key,
                 session_idx, pc, raised, emitted, period_vars>>

NextVote ==
  \/ VoteMatched
  \/ VoteUnmatched
  \/ VoteDebuggerContinue
  \/ VoteDebuggerQuit

SpecVote == InitVote /\ [][NextVote]_vars

\* The recognised codes, compared without regard to case.
RecognisedAs(v) ==
  {w \in {"NO", "YES", "ABSTAIN", "NO_VOTE"} :
     LET u == [i \in 1..Len(v) |-> char_upper(v[i])] IN
     \/ w = "NO" /\ u \in {<<"N", "O">>, <<"N">>}
     \/ w = "YES" /\ u \in {<<"Y", "E", "S">>, <<"Y">>}
     \/ w = "ABSTAIN" /\ u \in {<<"A", "B", "S", "T", "A", "I", "N">>, <<"A">>}
     \/ w = "NO_VOTE" /\ u \in {<<"N", "O", "_", "V", "O", "T", "E">>, <<".">>}}

\* C12: from_record_value returns the matching Vote for every recognised code in
\* any case, and for every other value raises a typed error to its caller; it
\* never halts at an interactive breakpoint and never returns a non-Vote.
C12_TypedErrorOnUnknownCode ==
  /\ vote_pc # "breakpoint"
  /\ vote_pc = "returned" =>
       /\ vote_result \in VoteMembers
       /\ \E w \in RecognisedAs(val) : vote_result = "Vote." \o w
  /\ (vote_pc \in {"returned", "raised"} /\ RecognisedAs(val) = {}) =>
       (vote_pc = "raised" /\ vote_result # "bdb.BdbQuit")
  /\ (vote_pc \in {"returned", "raised"} /\ RecognisedAs(val) # {}) =>
       vote_pc = "returned"

(***************************************************************************)
(* Session._generate and Resolution.session (types.py:60-65, 81-100).  A   *)
(* date is <<year, month, day>>.                                           *)
(***************************************************************************)

\* Years explored before 2006 and after 2024, the first and last year a period
\* of Session._generate touches.
YearsBefore == 1

YearsAfter == 1

\* datetime.date(year, month, day)
date(year, month, day) == <<year, month, day>>

IsLeapYear(y) == (y % 4 = 0 /\ y % 100 # 0) \/ y % 400 = 0

DaysInMonth(y, m) ==
  IF m = 2 THEN (IF IsLeapYear(y) THEN 29 ELSE 28)
  ELSE IF m \in {4, 6, 9, 11} THEN 30 ELSE 31

\* The calendar dates a resolution can carry, over the years explored.
Dates ==
  {x \in {date(y, m, d) : y \in (2006 - YearsBefore)..(2024 + YearsAfter),
                          m \in 1..12, d \in 1..31} :
     x[3] <= DaysInMonth(x[1], x[2])}

\* date.__le__: the order of the calendar.
DateLE(a, b) ==
  \/ a[1] < b[1]
  \/ a[1] = b[1] /\ a[2] < b[2]
  \/ a[1] = b[1] /\ a[2] = b[2] /\ a[3] <= b[3]

\* types.py:81-84: the dataclass Session(start_date, end_date).
DateSession(start_date, end_date) == [start_date |-> start_date, end_date |-> end_date]

\* range(a, b) as the sequence a, a+1, ..., b-1.
range(a, b) == [i \in 1..(b - a) |-> a + i - 1]

\* types.py:86-97: the periods in the order _generate yields them.
Session_generate ==
  [i \in 1..Len(range(2006, 2011)) |->
     DateSession(date(range(2006, 2011)[i], 6, 19),
                 date(range(2006, 2011)[i] + 1, 6, 18))]
  \o <<DateSession(date(2011, 6, 19), date(2012, 12, 31))>>
  \o [i \in 1..Len(range(2012, 2025)) |->
        DateSession(date(range(2012, 2025)[i], 1, 1),
                    date(range(2012, 2025)[i], 12, 31))]

\* types.py:99-100  str(self.start_date.year)
label(session) == ToString(session.start_date[1])

\* types.py:62: the periods that contain the date d.
Containing(d) ==
  {i \in 1..Len(Session_generate) :
     DateLE(Session_generate[i].start_date, d) /\ DateLE(d, Session_generate[i].end_date)}

\* Faulty variant: the last period containing d is the one returned.
LastContaining(d) == CHOOSE i \in Containing(d) : \A j \in Containing(d) : j <= i

\* types.py:61-63: the loop returns at the first period containing d.
FirstContaining(d) == CHOOSE i \in Containing(d) : \A j \in Containing(d) : i <= j

InitSession ==
  /\ SessionsStart
  /\ NoVoteCall
  /\ res_date \in Dates
  /\ session_pc = "called"
  /\ session_result = "none"

\* types.py:61-63: a period contains the date and is returned.
SessionReturned ==
  /\ session_pc = "called"
  /\ Containing(res_date) # {}
  /\ session_result' = Session_generate[FirstContaining(res_date)]
  /\ session_pc' = "returned"
  /\ UNCHANGED <<res_date, stream, session_cache, last_country_key, country_key,
                 session_idx, pc, raised, emitted, vote_vars>>

\* types.py:65: no period contains the date.
SessionMissing ==
  /\ session_pc = "called"
  /\ Containing(res_date) = {}
  /\ session_result' = "Exception: missing session"
  /\ session_pc' = "raised"
  /\ UNCHANGED <<res_date, stream, session_cache, last_country_key, country_key,
                 session_idx, pc, raised, emitted, vote_vars>>

NextSession ==
  \/ SessionReturned
  \/ SessionMissing

SpecSession == InitSession /\ [][NextSession]_vars

\* 2006-06-19 <= d <= 2024-12-31
InRange(d) == DateLE(<<2006, 6, 19>>, d) /\ DateLE(d, <<2024, 12, 31>>)

\* The periods of Session_generate that contain d, counted from their bounds.
PeriodsHolding(d) ==
  {i \in 1..Len(Session_generate) :
     /\ ~ DateLE(d, Session_generate[i].start_date) \/ d = Session_generate[i].start_date
     /\ ~ DateLE(Session_generate[i].end_date, d) \/ d = Session_generate[i].end_date}

\* The start of the period the membership calendar assigns to an in-range date:
\* 19 June of the cycle's year up to the 2010 cycle, 19 June 2011 until the end of
\* 2012, 1 January of the year from 2013 on.
CycleStart(d) ==
  IF DateLE(d, <<2011, 6, 18>>)
  THEN (IF DateLE(<<d[1], 6, 19>>, d) THEN <<d[1], 6, 19>> ELSE <<d[1] - 1, 6, 19>>)
  ELSE IF DateLE(d, <<2012, 12, 31>>) THEN <<2011, 6, 19>>
  ELSE <<d[1], 1, 1>>

\* C13 as stated: the periods are pairwise non-overlapping and cover 2006-06-19
\* to 2024-12-31, exactly one period contains each date of that range and
\* session() returns it, labelled with its start year; other dates raise.
C13_DisjointPeriods ==
  session_pc # "called" =>
    /\ Cardinality(PeriodsHolding(res_date)) <= 1
    /\ InRange(res_date) => Cardinality(PeriodsHolding(res_date)) = 1
    /\ session_pc = "returned" =>
         /\ InRange(res_date)
         /\ PeriodsHolding(res_date) = {i \in 1..Len(Session_generate) :
                                         Session_generate[i] = session_result}
         /\ label(session_result) = ToString(session_result.start_date[1])
    /\ session_pc = "raised" => ~InRange(res_date)

\* C13 as amended: the periods cover 2006-06-19 to 2024-12-31 without gaps and
\* overlap in the year 2012 only, where the calendar-year period of 2012 lies
\* inside the period 2011-06-19..2012-12-31; session() returns the first period
\* containing the date, which for a date of 2012 is the one starting 2011-06-19
\* (label "2011"), and raises for exactly the dates outside the range.
C13_PeriodsCoverFirstMatch ==
  /\ InRange(res_date) =>
       Cardinality(PeriodsHolding(res_date)) = (IF res_date[1] = 2012 THEN 2 ELSE 1)
  /\ ~InRange(res_date) => PeriodsHolding(res_date) = {}
  /\ session_pc = "returned" =>
       /\ InRange(res_date)
       /\ session_result.start_date = CycleStart(res_date)
       /\ DateLE(session_result.start_date, res_date)
       /\ DateLE(res_date, session_result.end_date)
       /\ \A i \in PeriodsHolding(res_date) :
            DateLE(session_result.start_date, Session_generate[i].start_date)
       /\ label(session_result) =
            (IF res_date[1] = 2012 THEN "2011" ELSE ToString(CycleStart(res_date)[1]))
  /\ session_pc = "raised" =>
       /\ ~InRange(res_date)
       /\ session_result = "Exception: missing session"
  /\ session_pc # "called" => (session_pc = "returned" <=> InRange(res_date))

C13_Witness ==
  /\ session_pc = "returned"
  /\ res_date = <<2012, 7, 1>>
  /\ session_result = DateSession(<<2011, 6, 19>>, <<2012, 12, 31>>)
====
